---- MODULE Spec2Model ----
(***************************************************************************)
(* RayCloudSim simulation kernel (core/env.py, core/node.py, core/link.py,  *)
(* core/task.py, core/utils.py) as a state machine.                         *)
(*                                                                          *)
(* The SimPy event loop is modelled by `queue`, the sequence of scheduled   *)
(* events in the order SimPy pops them: by time, then priority (URGENT      *)
(* before NORMAL), then scheduling order.  Every kernel action pops the     *)
(* head event and runs the coroutine segment that the event resumes, up to  *)
(* that coroutine's next yield.  The driver (examples/demo2.py) owns the    *)
(* control flow between two calls of Env.run: it submits tasks at the       *)
(* current instant and calls Env.run(until), with until one second further  *)
(* at every call.                                                           *)
(*                                                                          *)
(* Time is counted in half seconds (Second = 2 time units), so that a task  *)
(* can finish between two ticks of the monitor.  The requests of Catalog    *)
(* are chosen so that every duration of the source (task_size /             *)
(* trans_bit_rate, task_size * cycles_per_bit / cpu_freq) is a whole number *)
(* of time units.                                                           *)
(***************************************************************************)
EXTENDS Integers, Sequences, FiniteSets, TLC

\* ------------------------------------------------------------------ bounds
NumTasks == 3        \* Task objects the driver creates in one run
MaxTime == 3         \* the driver stops calling Env.run at this instant (in seconds)

\* ---------------------------------------------------------- scenario (input)
\* n3 has no link: in the base scenario it is an unreachable wired Node, in
\* the wireless scenario a WirelessNode whose closest wired node is n0
Nodes == {"n0", "n1", "n2", "n3"}
NoNode == "None"

max_cpu_freq == [n \in Nodes |-> IF n = "n2" THEN 2 ELSE 8]
max_size == [n \in Nodes |-> IF n = "n1" THEN 4 ELSE 0]

\* the nodes in the order of Scenario.get_nodes()
NodeSeq == <<"n0", "n1", "n2", "n3">>

\* Node.energy_coefficients (IdleEnergyCoef, ExeEnergyCoef of the config)
energy_coefficients == [n \in Nodes |-> [idle |-> 1, exe |-> 1]]

Links == {<<"n0", "n1">>, <<"n1", "n2">>}
max_bandwidth == [l \in Links |-> IF l = <<"n0", "n1">> THEN 4 ELSE 6]
base_latency == [l \in Links |-> 0]

\* The task stream the driver draws from: Task(id, task_size, cycles_per_bit,
\* trans_bit_rate, src_name, ddl) together with the dst_name handed to
\* Env.process.  ddl is written in time units (ddl |-> 1 is Task(ddl=0.5)).
Catalog == <<
  [id |-> 0, task_size |-> 2, cycles_per_bit |-> 2, trans_bit_rate |-> 4, ddl |-> 1,
   src_name |-> "n0", dst_name |-> "n1"],
  [id |-> 0, task_size |-> 2, cycles_per_bit |-> 1, trans_bit_rate |-> 4, ddl |-> 2,
   src_name |-> "n1", dst_name |-> "n2"],
  [id |-> 1, task_size |-> 2, cycles_per_bit |-> 1, trans_bit_rate |-> 4, ddl |-> 2,
   src_name |-> "n0", dst_name |-> "n2"],
  [id |-> 1, task_size |-> 4, cycles_per_bit |-> 1, trans_bit_rate |-> 4, ddl |-> 4,
   src_name |-> "n1", dst_name |-> "n1"],
  [id |-> 2, task_size |-> 2, cycles_per_bit |-> 2, trans_bit_rate |-> 2, ddl |-> 4,
   src_name |-> "n0", dst_name |-> "n1"],
  [id |-> 2, task_size |-> 2, cycles_per_bit |-> 2, trans_bit_rate |-> 2, ddl |-> 4,
   src_name |-> "n3", dst_name |-> "n1"],
  [id |-> 0, task_size |-> 1, cycles_per_bit |-> 4, trans_bit_rate |-> 2, ddl |-> 4,
   src_name |-> "n0", dst_name |-> "n1"],
  [id |-> 2, task_size |-> 1, cycles_per_bit |-> 4, trans_bit_rate |-> 2, ddl |-> 4,
   src_name |-> "n0", dst_name |-> "n1"] >>

\* the requests the base driver draws from, and those of a driver that sends
\* several small tasks to n1 at once, so that they queue up there
DriverRequests == 1..6
QueueRequests == {2, 4, 7, 8}

Ids == {Catalog[r].id : r \in 1..Len(Catalog)}
\* the second driver creates one Task object more than the base driver
TaskObjs == 1..(NumTasks + 1)

\* simulated time is counted in half seconds: one second of the source
\* (the period of the monitor, the step of the driver) is Second time units
Second == 2

\* SimPy event priorities (simpy.events.URGENT, simpy.events.NORMAL)
URGENT == 0
NORMAL == 1

VARIABLES
  now,              \* simpy.Environment.now
  queue,            \* simpy.Environment._queue, in pop order
  mode,             \* "driver": between two Env.run calls; "kernel": inside Env.run
  until,            \* the `until` of the current Env.run call
  raised,           \* the exception the last Env.run call raised to the driver ("" if none)
  launched,         \* launched_task_cnt of the driver: Task objects created so far
  task,             \* the Task objects: request, lifecycle fields, coroutine position
  free_cpu_freq,    \* Node.free_cpu_freq
  node_active,      \* Node.active_tasks (list of Task objects)
  buffer,           \* Node.task_buffer.buffer (deque of Task objects)
  free_size,        \* Node.task_buffer.free_size
  free_bandwidth,   \* Link.free_bandwidth
  data_flows,       \* Link.data_flows (each flow named by the Task that owns it)
  active_tasks,     \* Env.active_tasks: id -> Task object, 0 when the key is absent
  collector,        \* Env.done_task_collector.items
  task_count,       \* Env.task_count
  task_info,        \* Env.logger.task_info: id -> record, status -1 when the key is absent
  monitor_alive,    \* the _monitor_done_task_collector process has not terminated
  energy_consumption,  \* Node.energy_consumption
  total_cpu_freq,      \* Node.total_cpu_freq
  clock,               \* Node.clock
  flag_only_wireless,  \* Node.flag_only_wireless, fixed when the scenario is built
  default_dst_node,    \* WirelessNode.default_dst_node (NoNode stands for None)
  done_task_info,      \* Env.done_task_info: the list of drained completion tuples
  drained_in_run       \* the notices drained as DONE since the current Env.run call began:
                       \* the Task object that put each one and the instant of the drain

vars == <<now, queue, mode, until, raised, launched, task, free_cpu_freq, node_active,
          buffer, free_size, free_bandwidth, data_flows, active_tasks, collector,
          task_count, task_info, monitor_alive, energy_consumption,
          total_cpu_freq, clock, flag_only_wireless, default_dst_node,
          done_task_info, drained_in_run>>

\* The kernel state as one record, threaded through the handlers below.
Pack ==
  [now |-> now, queue |-> queue, task |-> task, free_cpu_freq |-> free_cpu_freq,
   node_active |-> node_active, buffer |-> buffer, free_size |-> free_size,
   free_bandwidth |-> free_bandwidth, data_flows |-> data_flows,
   active_tasks |-> active_tasks, collector |-> collector, task_count |-> task_count,
   task_info |-> task_info, monitor_alive |-> monitor_alive,
   energy_consumption |-> energy_consumption, total_cpu_freq |-> total_cpu_freq,
   clock |-> clock,
   flag_only_wireless |-> flag_only_wireless, default_dst_node |-> default_dst_node,
   done_task_info |-> done_task_info, drained_in_run |-> drained_in_run,
   exc |-> ""]     \* the exception the running coroutine segment has raised, if any

Unpack(s) ==
  /\ now' = s.now
  /\ queue' = s.queue
  /\ task' = s.task
  /\ free_cpu_freq' = s.free_cpu_freq
  /\ node_active' = s.node_active
  /\ buffer' = s.buffer
  /\ free_size' = s.free_size
  /\ free_bandwidth' = s.free_bandwidth
  /\ data_flows' = s.data_flows
  /\ active_tasks' = s.active_tasks
  /\ collector' = s.collector
  /\ task_count' = s.task_count
  /\ task_info' = s.task_info
  /\ monitor_alive' = s.monitor_alive
  /\ energy_consumption' = s.energy_consumption
  /\ total_cpu_freq' = s.total_cpu_freq
  /\ clock' = s.clock
  /\ flag_only_wireless' = s.flag_only_wireless
  /\ default_dst_node' = s.default_dst_node
  /\ done_task_info' = s.done_task_info
  /\ drained_in_run' = s.drained_in_run

\* ------------------------------------------------------------- sequences
RECURSIVE SeqSum(_)
SeqSum(q) == IF q = <<>> THEN 0 ELSE Head(q) + SeqSum(Tail(q))

\* list.remove(x): drops the first occurrence of x
RECURSIVE ListRemove(_, _)
ListRemove(q, x) ==
  IF q = <<>> THEN <<>>
  ELSE IF Head(q) = x THEN Tail(q) ELSE <<Head(q)>> \o ListRemove(Tail(q), x)

InList(q, x) == \E i \in 1..Len(q) : q[i] = x

\* ------------------------------------------------------------ event queue
NoErr == ""

Event(time, prio, kind, t, err) ==
  [time |-> time, prio |-> prio, kind |-> kind, task |-> t, err |-> err]

\* mutant of Schedule: the priority is ignored, events of one instant are
\* kept in the order of scheduling
Schedule_fifo(q, ev) ==
  LET k == Cardinality({i \in 1..Len(q) : q[i].time <= ev.time})
  IN SubSeq(q, 1, k) \o <<ev>> \o SubSeq(q, k + 1, Len(q))

\* heappush of (time, priority, eid, event): the event goes behind every event
\* that is not later and not of lower priority.
Schedule(q, ev) ==
  LET k == Cardinality({i \in 1..Len(q) :
                          \/ q[i].time < ev.time
                          \/ (q[i].time = ev.time /\ q[i].prio <= ev.prio)})
  IN SubSeq(q, 1, k) \o <<ev>> \o SubSeq(q, k + 1, Len(q))

\* ------------------------------------------------------------------ tasks
NewTask ==
  [req |-> 0, pc |-> "new", err |-> NoErr, dst |-> NoNode,
   cpu_freq |-> -1, trans_time |-> -1, wait_time |-> -1, exe_time |-> -1,
   placed |-> FALSE, links |-> <<>>, exe_cnt |-> 0, drained |-> FALSE,
   \* the instants at which the task put its completion notice and at which
   \* the monitor deallocated it (-1: not yet)
   done_at |-> -1, drained_at |-> -1,
   \* whether the task has been put in a buffer
   was_queued |-> FALSE,
   \* what the driver sees when it calls Env.process: the instant, and whether
   \* the id is a key of Env.active_tasks
   submitted_at |-> 0, dup_at_submit |-> FALSE,
   \* the stage the task was in when an Env.reset completed ("": none has,
   \* or the task was not in flight then)
   pc_at_reset |-> ""]

Req(s, t) == Catalog[s.task[t].req]

\* --------------------------------------------------------- infrastructure
\* nx.shortest_path(graph, src, dst, weight=None): a path with the fewest hops.
\* The scenario above has at most one simple path between two nodes, so the
\* order in which BFS visits neighbours does not matter.
PathsOfLen(src, dst, k) ==
  {p \in [1..(k + 1) -> Nodes] :
     /\ p[1] = src
     /\ p[k + 1] = dst
     /\ \A i \in 1..k : <<p[i], p[i + 1]>> \in Links}

\* mutant of get_standard_shortest_links: no path is an empty path
get_standard_shortest_links_empty(src, dst) ==
  LET lens == {k \in 0..(Cardinality(Nodes) - 1) : PathsOfLen(src, dst, k) # {}}
  IN IF lens = {} THEN [ok |-> TRUE, err |-> "", links |-> <<>>]
     ELSE LET k == CHOOSE x \in lens : \A y \in lens : x <= y
              p == CHOOSE q \in PathsOfLen(src, dst, k) : TRUE
          IN [ok |-> TRUE, err |-> "", links |-> [i \in 1..k |-> <<p[i], p[i + 1]>>]]

\* Infrastructure._get_standard_shortest_links: the Link objects along the
\* shortest path; err = "NetworkXNoPath" stands for nx.exception.NetworkXNoPath.
get_standard_shortest_links(src, dst) ==
  LET lens == {k \in 0..(Cardinality(Nodes) - 1) : PathsOfLen(src, dst, k) # {}}
  IN IF lens = {} THEN [ok |-> FALSE, err |-> "NetworkXNoPath", links |-> <<>>]
     ELSE LET k == CHOOSE x \in lens : \A y \in lens : x <= y
              p == CHOOSE q \in PathsOfLen(src, dst, k) : TRUE
          IN [ok |-> TRUE, err |-> "", links |-> [i \in 1..k |-> <<p[i], p[i + 1]>>]]

\* Infrastructure._get_shortest_wireless_links: the wired links between the
\* access nodes, with the tuple (wireless node, access node) in front of them
\* or behind them.  A tuple is a pair that is not in Links.
get_shortest_wireless_links(fw, dd, src, dst) ==
  LET srcw == fw[src] /\ dd[src] # NoNode
      dstw == fw[dst] /\ dd[dst] # NoNode
      a == IF srcw THEN dd[src] ELSE src
      b == IF dstw THEN dd[dst] ELSE dst
      wired == get_standard_shortest_links(a, b)
  IN IF ~srcw /\ ~dstw
     THEN [ok |-> FALSE, err |-> "IsolatedWirelessNode", links |-> <<>>]
     ELSE IF ~wired.ok THEN wired
     ELSE [ok |-> TRUE, err |-> "",
           links |-> (IF srcw THEN << <<src, a>> >> ELSE <<>>) \o wired.links
                       \o (IF dstw THEN << <<b, dst>> >> ELSE <<>>)]

\* Infrastructure.get_shortest_links; fw is flag_only_wireless and dd is
\* default_dst_node
get_shortest_links(fw, dd, src, dst) ==
  IF fw[src] \/ fw[dst]
  THEN get_shortest_wireless_links(fw, dd, src, dst)
  ELSE get_standard_shortest_links(src, dst)

\* Link._add_data_flow: _reserve_bandwidth, then data_flows.append
add_data_flow(s, l, t) ==
  LET bw == Req(s, t).trans_bit_rate
  IN IF s.free_bandwidth[l] < bw
     THEN [s EXCEPT !.exc = "ValueError"]
     ELSE [s EXCEPT !.free_bandwidth[l] = @ - bw,
                    !.data_flows[l] = Append(@, t)]

\* mutant of remove_data_flow: the flow leaves the list, its bandwidth is not
\* given back
remove_data_flow_keeps_bandwidth(s, l, t) ==
  IF ~InList(s.data_flows[l], t)
  THEN [s EXCEPT !.exc = "ValueError"]
  ELSE [s EXCEPT !.data_flows[l] = ListRemove(@, t)]

\* Link._remove_data_flow: _release_bandwidth, then data_flows.remove
remove_data_flow(s, l, t) ==
  LET bw == Req(s, t).trans_bit_rate
  IN IF s.free_bandwidth[l] + bw > max_bandwidth[l]
     THEN [s EXCEPT !.exc = "ValueError"]
     ELSE IF ~InList(s.data_flows[l], t)
     THEN [s EXCEPT !.free_bandwidth[l] = @ + bw, !.exc = "ValueError"]
     ELSE [s EXCEPT !.free_bandwidth[l] = @ + bw,
                    !.data_flows[l] = ListRemove(@, t)]

\* the `for link in self.links` loops of DataFlow.allocate / deallocate;
\* an exception leaves the links already visited changed
RECURSIVE AddFlowOn(_, _, _)
AddFlowOn(s, ls, t) ==
  IF ls = <<>> \/ s.exc # NoErr THEN s
  ELSE AddFlowOn(add_data_flow(s, Head(ls), t), Tail(ls), t)

RECURSIVE RemoveFlowOn(_, _, _)
RemoveFlowOn(s, ls, t) ==
  IF ls = <<>> \/ s.exc # NoErr THEN s
  ELSE RemoveFlowOn(remove_data_flow(s, Head(ls), t), Tail(ls), t)

\* DataFlow.allocate, for the trans_flow of task t
DataFlowAllocate(s, t, ls) ==
  IF s.task[t].placed THEN [s EXCEPT !.exc = "ValueError"]
  ELSE AddFlowOn([s EXCEPT !.task[t].placed = TRUE, !.task[t].links = ls], ls, t)

\* DataFlow.deallocate
DataFlowDeallocate(s, t) ==
  IF ~s.task[t].placed THEN [s EXCEPT !.exc = "ValueError"]
  ELSE LET s1 == RemoveFlowOn(s, s.task[t].links, t)
       IN IF s1.exc # NoErr THEN s1
          ELSE [s1 EXCEPT !.task[t].placed = FALSE, !.task[t].links = <<>>]

\* ------------------------------------------------------------------- node
\* mutant of add_task: on a busy node the task joins the active list
add_task_joins_busy(s, n, t) ==
  IF s.free_cpu_freq[n] > 0
  THEN [s EXCEPT !.task[t].cpu_freq = s.free_cpu_freq[n],
                 !.free_cpu_freq[n] = 0,
                 !.node_active[n] = Append(@, t)]
  ELSE [s EXCEPT !.node_active[n] = Append(@, t)]

\* Node._add_task: _reserve_resource, then active_tasks.append
add_task(s, n, t) ==
  IF s.free_cpu_freq[n] > 0
  THEN [s EXCEPT !.task[t].cpu_freq = s.free_cpu_freq[n],
                 !.free_cpu_freq[n] = 0,
                 !.node_active[n] = Append(@, t)]
  ELSE [s EXCEPT !.exc = "ValueError"]

\* mutant of remove_task: the task leaves the list, the CPU is not released
remove_task_keeps_cpu(s, n, t) ==
  IF ~InList(s.node_active[n], t)
  THEN [s EXCEPT !.exc = "ValueError"]
  ELSE [s EXCEPT !.node_active[n] = ListRemove(@, t)]

\* Node._remove_task: _release_resource, then active_tasks.remove
remove_task(s, n, t) ==
  IF s.free_cpu_freq[n] # 0 THEN [s EXCEPT !.exc = "ValueError"]
  ELSE IF ~InList(s.node_active[n], t)
  THEN [s EXCEPT !.free_cpu_freq[n] = max_cpu_freq[n], !.exc = "ValueError"]
  ELSE [s EXCEPT !.free_cpu_freq[n] = max_cpu_freq[n],
                 !.node_active[n] = ListRemove(@, t)]

\* mutant of BufferAppend: a task that would fill the buffer exactly is refused
BufferAppend_strict(s, n, t) ==
  IF Req(s, t).task_size < s.free_size[n]
  THEN [s EXCEPT !.free_size[n] = @ - Req(s, t).task_size,
                 !.buffer[n] = Append(@, t)]
  ELSE [s EXCEPT !.exc = "InsufficientBufferError"]

\* Buffer.append (through Node.append_task)
BufferAppend(s, n, t) ==
  IF Req(s, t).task_size <= s.free_size[n]
  THEN [s EXCEPT !.free_size[n] = @ - Req(s, t).task_size,
                 !.buffer[n] = Append(@, t)]
  ELSE [s EXCEPT !.exc = "InsufficientBufferError"]

\* Buffer.pop (through Node.pop_task): the state after the pop; the popped
\* task is BufferHead, 0 standing for None
BufferHead(s, n) == IF s.buffer[n] # <<>> THEN Head(s.buffer[n]) ELSE 0

BufferPop(s, n) ==
  IF s.buffer[n] # <<>>
  THEN [s EXCEPT !.buffer[n] = Tail(@),
                 !.free_size[n] = @ + Req(s, Head(s.buffer[n])).task_size]
  ELSE s

\* ------------------------------------------------------------------- task
\* Task.allocate(now, node, pre_allocate=True)
AllocatePre(s, t, n) ==
  LET s1 == [s EXCEPT !.task[t].wait_time = s.now]
  IN IF s1.task[t].dst # NoNode THEN [s1 EXCEPT !.exc = "ValueError"]
     ELSE [s1 EXCEPT !.task[t].dst = n]

\* mutant of ExeTime: cycles_per_bit is left out
ExeTime_ignores_cycles(s, t) ==
  (Second * Req(s, t).task_size) \div s.task[t].cpu_freq

\* task.exe_time = (task_size * cycles_per_bit) / cpu_freq
ExeTime(s, t) ==
  (Second * Req(s, t).task_size * Req(s, t).cycles_per_bit) \div s.task[t].cpu_freq

\* mutant of AllocateReactive: the elapsed wait is added to the enqueue stamp
\* instead of replacing it
AllocateReactive_accumulates(s, t) ==
  LET s1 == [s EXCEPT !.task[t].wait_time = @ + (s.now - @) + s.task[t].trans_time]
      s2 == add_task(s1, s1.task[t].dst, t)
  IN IF s2.exc # NoErr THEN s2 ELSE [s2 EXCEPT !.task[t].exe_time = ExeTime(s2, t)]

\* Task.allocate(now): re-activate a pre-allocated task
AllocateReactive(s, t) ==
  LET s1 == [s EXCEPT !.task[t].wait_time = (s.now - @) + s.task[t].trans_time]
      s2 == add_task(s1, s1.task[t].dst, t)
  IN IF s2.exc # NoErr THEN s2 ELSE [s2 EXCEPT !.task[t].exe_time = ExeTime(s2, t)]

\* mutant of AllocateNow: the wait of a task admitted on arrival is zero
AllocateNow_zero_wait(s, t, n) ==
  LET s1 == [s EXCEPT !.task[t].wait_time = 0]
  IN IF s1.task[t].dst # NoNode THEN [s1 EXCEPT !.exc = "ValueError"]
     ELSE LET s2 == add_task([s1 EXCEPT !.task[t].dst = n], n, t)
          IN IF s2.exc # NoErr THEN s2
             ELSE [s2 EXCEPT !.task[t].exe_time = ExeTime(s2, t)]

\* Task.allocate(now, node): allocate and execute at once
AllocateNow(s, t, n) ==
  LET s1 == [s EXCEPT !.task[t].wait_time = s.task[t].trans_time]
  IN IF s1.task[t].dst # NoNode THEN [s1 EXCEPT !.exc = "ValueError"]
     ELSE LET s2 == add_task([s1 EXCEPT !.task[t].dst = n], n, t)
          IN IF s2.exc # NoErr THEN s2
             ELSE [s2 EXCEPT !.task[t].exe_time = ExeTime(s2, t)]

\* Task.deallocate
TaskDeallocate(s, t) ==
  IF s.task[t].dst = NoNode THEN [s EXCEPT !.exc = "ValueError"]
  ELSE LET s1 == remove_task(s, s.task[t].dst, t)
       IN IF s1.exc # NoErr THEN s1
          ELSE [s1 EXCEPT !.task[t].dst = NoNode, !.task[t].exe_cnt = @ + 1]

\* -------------------------------------------------------------------- env
\* EnvLogger.append('task', key, (1, [kind], (src, dst))) with task_count += 1
LogFailure(s, id, kind, src, dst) ==
  [s EXCEPT !.task_count = @ + 1,
            !.task_info[id] = [status |-> 1, info |-> <<kind>>, src |-> src, dst |-> dst]]

\* mutant of Congested: no path counts as congested
Congested_never(s, ls, rate) == FALSE

\* mutant of Congested: the check looks at the first link of the path only
Congested_first_link(s, ls, rate) ==
  ls[1] \in Links /\ s.free_bandwidth[ls[1]] < rate

\* mutant of Congested: a link whose free bandwidth equals the bit rate
\* counts as congested
Congested_le(s, ls, rate) ==
  \E i \in 1..Len(ls) : ls[i] \in Links /\ s.free_bandwidth[ls[i]] <= rate

\* the congestion loop of Env._handle_task_transmission: some Link object of
\* the path has less free bandwidth than the bit rate of the task
Congested(s, ls, rate) ==
  \E i \in 1..Len(ls) : ls[i] \in Links /\ s.free_bandwidth[ls[i]] < rate

\* Env._handle_task_transmission up to its yield: route, congestion check,
\* trans_time, send_data_flow, timeout(trans_time).  The base-latency loop
\* reads link.base_latency of every element of the path: on a tuple it raises
\* AttributeError, after task.trans_time = 0.
HandleTaskTransmission(s, t) ==
  LET r == Req(s, t)
      path == get_shortest_links(s.flag_only_wireless, s.default_dst_node,
                                 r.src_name, r.dst_name)
      ls == path.links
  IN IF path.err = "NetworkXNoPath"
     THEN [LogFailure(s, r.id, "NetworkXNoPathError", r.src_name, r.dst_name)
             EXCEPT !.exc = "NetworkXNoPathError"]
     ELSE IF path.err # ""
     THEN [s EXCEPT !.exc = path.err]
     ELSE IF Congested(s, ls, r.trans_bit_rate)
     THEN [LogFailure(s, r.id, "NetCongestionError", r.src_name, r.dst_name)
             EXCEPT !.exc = "NetCongestionError"]
     ELSE IF \E i \in 1..Len(ls) : ls[i] \notin Links
     THEN [s EXCEPT !.task[t].trans_time = 0, !.exc = "AttributeError"]
     ELSE LET tt == SeqSum([i \in 1..Len(ls) |-> base_latency[ls[i]]])
                      + ((Second * r.task_size) \div r.trans_bit_rate) * Len(ls)
              s1 == DataFlowAllocate([s EXCEPT !.task[t].trans_time = tt], t, ls)
          IN IF s1.exc # NoErr THEN s1
             ELSE [s1 EXCEPT !.task[t].pc = "trans",
                             !.queue = Schedule(@, Event(s.now + tt, NORMAL, "trans_done", t, NoErr))]

\* mutant of HandleTaskExecution: a task that does not fit the buffer is
\* refused even when the CPU is free
HandleTaskExecution_buffer_first(s, t, n, flag_reactive) ==
  IF n = NoNode THEN [s EXCEPT !.exc = "AttributeError"]
  ELSE IF ~(s.free_cpu_freq[n] > 0) \/ Req(s, t).task_size > s.free_size[n]
  THEN LET s1 == AllocatePre(s, t, n)
       IN IF s1.exc # NoErr THEN s1
          ELSE LET s2 == BufferAppend(s1, n, t)
               IN IF s2.exc # NoErr
                  THEN LogFailure(s2, Req(s, t).id, "InsufficientBufferError",
                                  Req(s, t).src_name, s2.task[t].dst)
                  ELSE [s2 EXCEPT !.task[t].pc = "queued", !.task[t].was_queued = TRUE]
  ELSE LET s1 == IF flag_reactive THEN AllocateReactive(s, t) ELSE AllocateNow(s, t, n)
       IN IF s1.exc # NoErr THEN s1
          ELSE [s1 EXCEPT !.active_tasks[Req(s, t).id] = t,
                          !.task[t].pc = "exec",
                          !.queue = Schedule(@, Event(s.now + s1.task[t].exe_time, NORMAL,
                                                      "exe_done", t, NoErr))]

\* Env._handle_task_execution up to its yield (or its return when the task
\* is buffered); n is the `dst` argument
HandleTaskExecution(s, t, n, flag_reactive) ==
  IF n = NoNode THEN [s EXCEPT !.exc = "AttributeError"]
  ELSE IF ~(s.free_cpu_freq[n] > 0)
  THEN LET s1 == AllocatePre(s, t, n)
       IN IF s1.exc # NoErr THEN s1
          ELSE LET s2 == BufferAppend(s1, n, t)
               IN IF s2.exc # NoErr
                  THEN LogFailure(s2, Req(s, t).id, "InsufficientBufferError",
                                  Req(s, t).src_name, s2.task[t].dst)
                  ELSE [s2 EXCEPT !.task[t].pc = "queued", !.task[t].was_queued = TRUE]
  ELSE LET s1 == IF flag_reactive THEN AllocateReactive(s, t) ELSE AllocateNow(s, t, n)
       IN IF s1.exc # NoErr THEN s1
          ELSE [s1 EXCEPT !.active_tasks[Req(s, t).id] = t,
                          !.task[t].pc = "exec",
                          !.queue = Schedule(@, Event(s.now + s1.task[t].exe_time, NORMAL,
                                                      "exe_done", t, NoErr))]

\* mutant of IsDuplicate: the guard never fires
IsDuplicate_never(s, t) == FALSE

\* the duplicate-id guard at the head of Env._process_task
IsDuplicate(s, t) == s.active_tasks[Req(s, t).id] # 0

\* mutant of ProcessTask: a task whose destination is its source is routed
\* like any other
ProcessTask_routes_local(s, t, flag_reactive) ==
  LET r == Req(s, t)
  IN IF IsDuplicate(s, t)
     THEN [LogFailure(s, r.id, "DuplicateTaskIdError", r.src_name,
                      IF flag_reactive THEN NoNode ELSE r.dst_name)
             EXCEPT !.exc = "DuplicateTaskIdError"]
     ELSE IF flag_reactive
     THEN HandleTaskExecution(s, t, s.task[t].dst, TRUE)
     ELSE HandleTaskTransmission(s, t)

\* Env._process_task from its first step to its first yield.
\* flag_reactive: the task comes from the waiting queue (dst_name is None).
ProcessTask(s, t, flag_reactive) ==
  LET r == Req(s, t)
  IN IF IsDuplicate(s, t)
     THEN [LogFailure(s, r.id, "DuplicateTaskIdError", r.src_name,
                      IF flag_reactive THEN NoNode ELSE r.dst_name)
             EXCEPT !.exc = "DuplicateTaskIdError"]
     ELSE IF flag_reactive
     THEN HandleTaskExecution(s, t, s.task[t].dst, TRUE)
     ELSE IF r.dst_name # r.src_name
     THEN HandleTaskTransmission(s, t)
     ELSE HandleTaskExecution([s EXCEPT !.task[t].trans_time = 0], t, r.dst_name, FALSE)

\* mutant of TransmissionDone: the flow is not deallocated on arrival
TransmissionDone_keeps_flow(s, t) ==
  HandleTaskExecution(s, t, Req(s, t).dst_name, FALSE)

\* Env._handle_task_transmission after its yield, then _handle_task_execution
TransmissionDone(s, t) ==
  LET s1 == DataFlowDeallocate(s, t)
  IN IF s1.exc # NoErr THEN s1
     ELSE HandleTaskExecution(s1, t, Req(s, t).dst_name, FALSE)

\* mutant of ExecutionDone: a task whose wait and execution exceed its ddl is
\* aborted with TimeoutError instead of putting its notice
ExecutionDone_aborts_late(s, t) ==
  IF s.task[t].wait_time + s.task[t].exe_time > Req(s, t).ddl
  THEN [s EXCEPT !.task[t].pc = "failed", !.task[t].err = "TimeoutError"]
  ELSE [s EXCEPT !.collector = Append(@, [id |-> Req(s, t).id, dst |-> Req(s, t).dst_name,
                                          by |-> t]),
                 !.task[t].pc = "finished",
                 !.task[t].done_at = s.now]

\* Env._handle_task_execution after its yield: done_task_collector.put
ExecutionDone(s, t) ==
  [s EXCEPT !.collector = Append(@, [id |-> Req(s, t).id, dst |-> Req(s, t).dst_name,
                                     by |-> t]),     \* by: the task that put the item
            !.task[t].pc = "finished",
            !.task[t].done_at = s.now]

\* mutant of ActiveDelete: the id stays a key of Env.active_tasks
ActiveDelete_keeps_key(s, id) == s

\* del self.active_tasks[task_id]
ActiveDelete(s, id) == [s EXCEPT !.active_tasks[id] = 0]

\* the tuple (self.now, task_id, flag, info) that the monitor appends to
\* done_task_info for the item it has taken from the collector
DoneTuple(time, item) ==
  [time |-> time, id |-> item.id, flag |-> 0, dst |-> item.dst, by |-> item.by]

\* one turn of the inner while loop of Env._monitor_done_task_collector
DrainOne(s) ==
  LET id == Head(s.collector).id
      s0 == [s EXCEPT !.collector = Tail(@),
                      !.done_task_info = Append(@, DoneTuple(s.now, Head(s.collector)))]
      x == s0.active_tasks[id]
  IN IF x = 0 THEN [s0 EXCEPT !.exc = "KeyError"]
     ELSE LET n == s0.task[x].dst
          IN IF n = NoNode THEN [s0 EXCEPT !.exc = "AttributeError"]
             ELSE LET waiting_task == BufferHead(s0, n)
                      s1 == BufferPop(s0, n)
                      s2 == [s1 EXCEPT !.task_info[id] =
                               [status |-> 0,
                                info |-> <<s1.task[x].trans_time, s1.task[x].wait_time,
                                           s1.task[x].exe_time>>,
                                src |-> Req(s1, x).src_name, dst |-> n]]
                      s3 == TaskDeallocate(s2, x)
                  IN IF s3.exc # NoErr THEN s3
                     ELSE LET s4 == [ActiveDelete(s3, id) EXCEPT
                                               !.task_count = @ + 1,
                                               !.task[x].drained = TRUE,
                                               !.task[x].drained_at = s.now,
                                               !.drained_in_run =
                                                  Append(@, [by |-> Head(s.collector).by,
                                                             at |-> s.now])]
                          IN IF waiting_task = 0 THEN s4
                             ELSE [s4 EXCEPT !.task[waiting_task].pc = "react",
                                             !.queue = Schedule(@, Event(s.now, URGENT, "react",
                                                                         waiting_task, NoErr))]

RECURSIVE DrainAll(_)
DrainAll(s) ==
  IF s.collector = <<>> \/ s.exc # NoErr THEN s ELSE DrainAll(DrainOne(s))

\* A coroutine segment has ended: if it raised, the process fails at this
\* instant and SimPy re-raises the exception from Env.run when it pops the
\* failed process event (scheduled NORMAL at now).
EndSegment(s, t) ==
  IF s.exc = NoErr THEN s
  ELSE [s EXCEPT !.exc = NoErr,
                 !.task[t].pc = "failed",
                 !.task[t].err = s.exc,
                 !.queue = Schedule(@, Event(s.now, NORMAL, "fail", t, s.exc))]

\* one cycle of the outer loop of Env._monitor_done_task_collector
MonitorCycle(s) ==
  LET s1 == IF s.collector = <<>> THEN [s EXCEPT !.done_task_info = <<>>]
            ELSE DrainAll(s)
  IN IF s1.exc # NoErr
     THEN [s1 EXCEPT !.exc = NoErr,
                     !.monitor_alive = FALSE,
                     !.queue = Schedule(@, Event(s.now, NORMAL, "fail", 0, s1.exc))]
     ELSE [s1 EXCEPT !.queue = Schedule(@, Event(s.now + Second, NORMAL, "monitor", 0, NoErr))]

\* mutant of TrackNodeEnergy: the idle share of a tick is the idle coefficient
\* times the capacity of the node, and the tick adds no execution share
TrackNodeEnergy_idle_times_max(s, i) ==
  LET n == NodeSeq[i]
      used == max_cpu_freq[n] - s.free_cpu_freq[n]
  IN [s EXCEPT !.energy_consumption[n] = @ + energy_coefficients[n].idle * max_cpu_freq[n],
               !.total_cpu_freq[n] = @ + used,
               !.clock[n] = @ + 1,
               !.queue = Schedule(@, Event(s.now + Second, NORMAL, "energy", i, NoErr))]

\* mutant of TrackNodeEnergy: a tick of an idle node gives energy back
TrackNodeEnergy_idle_recovers(s, i) ==
  LET n == NodeSeq[i]
      used == max_cpu_freq[n] - s.free_cpu_freq[n]
  IN [s EXCEPT !.energy_consumption[n] =
                  IF used = 0 THEN @ - energy_coefficients[n].idle
                  ELSE @ + energy_coefficients[n].idle
                         + energy_coefficients[n].exe * used * used * used,
               !.total_cpu_freq[n] = @ + used,
               !.clock[n] = @ + 1,
               !.queue = Schedule(@, Event(s.now + Second, NORMAL, "energy", i, NoErr))]

\* one turn of the loop of Env._track_node_energy for the node NodeSeq[i]
TrackNodeEnergy(s, i) ==
  LET n == NodeSeq[i]
      used == max_cpu_freq[n] - s.free_cpu_freq[n]
  IN [s EXCEPT !.energy_consumption[n] =
                  @ + energy_coefficients[n].idle
                    + energy_coefficients[n].exe * used * used * used,
               !.total_cpu_freq[n] = @ + used,
               !.clock[n] = @ + 1,
               !.queue = Schedule(@, Event(s.now + Second, NORMAL, "energy", i, NoErr))]

\* the processes Env.__init__ starts: the monitor, then one energy recorder
\* per node; each has an Initialize event, URGENT at 0
InitialQueue ==
  <<Event(0, URGENT, "monitor", 0, NoErr)>>
    \o [i \in 1..Len(NodeSeq) |-> Event(0, URGENT, "energy", i, NoErr)]

Init ==
  /\ now = 0
  /\ queue = InitialQueue
  /\ mode = "driver"
  /\ until = 0
  /\ raised = NoErr
  /\ launched = 0
  /\ task = [t \in TaskObjs |-> NewTask]
  /\ free_cpu_freq = max_cpu_freq
  /\ node_active = [n \in Nodes |-> <<>>]
  /\ buffer = [n \in Nodes |-> <<>>]
  /\ free_size = max_size
  /\ free_bandwidth = max_bandwidth
  /\ data_flows = [l \in Links |-> <<>>]
  /\ active_tasks = [i \in Ids |-> 0]
  /\ collector = <<>>
  /\ task_count = 0
  /\ task_info = [i \in Ids |-> [status |-> -1, info |-> <<>>, src |-> NoNode, dst |-> NoNode]]
  /\ monitor_alive = TRUE
  /\ energy_consumption = [n \in Nodes |-> 0]
  /\ total_cpu_freq = [n \in Nodes |-> 0]
  /\ clock = [n \in Nodes |-> 0]
  /\ flag_only_wireless = [n \in Nodes |-> FALSE]
  /\ default_dst_node = [n \in Nodes |-> NoNode]
  /\ done_task_info = <<>>
  /\ drained_in_run = <<>>

\* ----------------------------------------------------------------- driver
\* Env.process(task=Task(...), dst_name=...) at the current instant: the
\* coroutine is created and its Initialize event scheduled URGENT at now.
Submit(r) ==
  /\ mode = "driver"
  /\ launched < NumTasks
  /\ launched' = launched + 1
  /\ task' = [task EXCEPT ![launched + 1] =
                 [NewTask EXCEPT !.req = r, !.pc = "init", !.submitted_at = now,
                                 !.dup_at_submit = (active_tasks[Catalog[r].id] # 0)]]
  /\ queue' = Schedule(queue, Event(now, URGENT, "init", launched + 1, NoErr))
  /\ UNCHANGED <<now, mode, until, raised, free_cpu_freq, node_active, buffer, free_size,
                 free_bandwidth, data_flows, active_tasks, collector, task_count,
                 task_info, monitor_alive, energy_consumption,
                 total_cpu_freq, clock, flag_only_wireless, default_dst_node,
                 done_task_info, drained_in_run>>

\* Env.process as the second driver calls it
SubmitQ(r) ==
  /\ mode = "driver"
  /\ launched < NumTasks + 1
  /\ launched' = launched + 1
  /\ task' = [task EXCEPT ![launched + 1] =
                 [NewTask EXCEPT !.req = r, !.pc = "init", !.submitted_at = now,
                                 !.dup_at_submit = (active_tasks[Catalog[r].id] # 0)]]
  /\ queue' = Schedule(queue, Event(now, URGENT, "init", launched + 1, NoErr))
  /\ UNCHANGED <<now, mode, until, raised, free_cpu_freq, node_active, buffer, free_size,
                 free_bandwidth, data_flows, active_tasks, collector, task_count,
                 task_info, monitor_alive, energy_consumption, total_cpu_freq, clock,
                 flag_only_wireless, default_dst_node,
                 done_task_info, drained_in_run>>

\* Env.run(until) as the driver calls it: until is one second further at
\* every call, whether or not the previous call raised
Run ==
  /\ mode = "driver"
  /\ until < MaxTime * Second
  /\ mode' = "kernel"
  /\ until' = until + Second
  /\ raised' = NoErr
  /\ drained_in_run' = <<>>
  /\ UNCHANGED <<now, queue, launched, task, free_cpu_freq, node_active, buffer, free_size,
                 free_bandwidth, data_flows, active_tasks, collector, task_count,
                 task_info, monitor_alive, energy_consumption,
                 total_cpu_freq, clock, flag_only_wireless, default_dst_node,
                 done_task_info>>

\* Node.reset, for every node (with Buffer.reset)
NodeReset(s) ==
  [s EXCEPT !.free_cpu_freq = max_cpu_freq,
            !.energy_consumption = [n \in Nodes |-> 0],
            !.buffer = [n \in Nodes |-> <<>>],
            !.free_size = max_size,
            !.node_active = [n \in Nodes |-> <<>>],
            !.total_cpu_freq = [n \in Nodes |-> 0],
            !.clock = [n \in Nodes |-> 0]]

\* Link.reset, for every link
LinkReset(s) ==
  [s EXCEPT !.free_bandwidth = max_bandwidth,
            !.data_flows = [l \in Links |-> <<>>]]

\* EnvLogger.reset
LoggerReset(s) ==
  [s EXCEPT !.task_info = [i \in Ids |-> [status |-> -1, info |-> <<>>,
                                          src |-> NoNode, dst |-> NoNode]]]

\* the tasks whose coroutine has not ended and that have not been drained
Unfinished(s) ==
  {t \in TaskObjs :
     \/ s.task[t].pc \in {"init", "trans", "queued", "react", "exec"}
     \/ /\ s.task[t].pc = "finished"
        /\ \E i \in 1..Len(s.collector) : s.collector[i].by = t}

\* Env.reset: the values of active_tasks are Task objects, which have no
\* is_alive attribute, so the loop raises at its first turn; with no active
\* task it clears the counter, the scenario, the logger and the collector
EnvReset(s) ==
  IF \E id \in Ids : s.active_tasks[id] # 0
  THEN [s EXCEPT !.exc = "AttributeError"]
  ELSE LET s1 == LoggerReset(LinkReset(NodeReset([s EXCEPT !.task_count = 0])))
       IN [s1 EXCEPT !.collector = <<>>,
                     !.done_task_info = <<>>,
                     !.task = [t \in TaskObjs |->
                                 [s.task[t] EXCEPT !.pc_at_reset =
                                    IF t \in Unfinished(s) THEN s.task[t].pc ELSE @]]]

\* Env.reset() as a driver calls it between two runs
Reset ==
  /\ mode = "driver"
  /\ Unpack([EnvReset(Pack) EXCEPT !.exc = NoErr])
  /\ raised' = EnvReset(Pack).exc
  /\ UNCHANGED <<mode, until, launched>>

\* ----------------------------------------------------------------- kernel
\* mutant of Due: an event at the instant `until` is due as well
Due_at_until == mode = "kernel" /\ queue # <<>> /\ Head(queue).time <= until

\* simpy.Environment.step pops the head event when it is due before `until`
Due == mode = "kernel" /\ queue # <<>> /\ Head(queue).time < until

Popped == [Pack EXCEPT !.now = Head(queue).time, !.queue = Tail(queue)]

\* first step of _process_task for a task the driver submitted
Initialize ==
  /\ Due
  /\ Head(queue).kind = "init"
  /\ Unpack(EndSegment(ProcessTask(Popped, Head(queue).task, FALSE), Head(queue).task))
  /\ UNCHANGED <<mode, until, raised, launched>>

\* first step of _process_task for a task the monitor took from a buffer
Reactivate ==
  /\ Due
  /\ Head(queue).kind = "react"
  /\ Unpack(EndSegment(ProcessTask(Popped, Head(queue).task, TRUE), Head(queue).task))
  /\ UNCHANGED <<mode, until, raised, launched>>

\* the transmission timeout fires: the task arrives at its destination
Arrive ==
  /\ Due
  /\ Head(queue).kind = "trans_done"
  /\ Unpack(EndSegment(TransmissionDone(Popped, Head(queue).task), Head(queue).task))
  /\ UNCHANGED <<mode, until, raised, launched>>

\* the execution timeout fires
Complete ==
  /\ Due
  /\ Head(queue).kind = "exe_done"
  /\ Unpack(ExecutionDone(Popped, Head(queue).task))
  /\ UNCHANGED <<mode, until, raised, launched>>

\* the monitor process starts or wakes from timeout(1)
Monitor ==
  /\ Due
  /\ Head(queue).kind = "monitor"
  /\ Unpack(MonitorCycle(Popped))
  /\ UNCHANGED <<mode, until, raised, launched>>

\* an energy recorder starts or wakes from timeout(1)
EnergyTick ==
  /\ Due
  /\ Head(queue).kind = "energy"
  /\ Unpack(TrackNodeEnergy(Popped, Head(queue).task))
  /\ UNCHANGED <<mode, until, raised, launched>>

\* a failed process event is popped: Env.run raises its exception to the driver
Propagate ==
  /\ Due
  /\ Head(queue).kind = "fail"
  /\ Unpack(Popped)
  /\ mode' = "driver"
  /\ raised' = Head(queue).err
  /\ UNCHANGED <<until, launched>>

\* the stop event of Env.run(until) is popped ahead of every event of that
\* instant: Env.run returns with now = until
Stop ==
  /\ mode = "kernel"
  /\ IF queue = <<>> THEN TRUE ELSE Head(queue).time >= until
  /\ now' = until
  /\ mode' = "driver"
  /\ UNCHANGED <<queue, until, raised, launched, task, free_cpu_freq, node_active, buffer,
                 free_size, free_bandwidth, data_flows, active_tasks, collector,
                 task_count, task_info, monitor_alive, energy_consumption,
                 total_cpu_freq, clock, flag_only_wireless, default_dst_node,
                 done_task_info, drained_in_run>>

Next ==
  \/ \E r \in DriverRequests : Submit(r)
  \/ Run
  \/ Initialize
  \/ Reactivate
  \/ Arrive
  \/ Complete
  \/ Monitor
  \/ EnergyTick
  \/ Propagate
  \/ Stop

Spec == Init /\ [][Next]_vars

\* The same program under a driver that also resets the environment
NextR ==
  \/ \E r \in DriverRequests : Submit(r)
  \/ Run
  \/ Reset
  \/ Initialize
  \/ Reactivate
  \/ Arrive
  \/ Complete
  \/ Monitor
  \/ EnergyTick
  \/ Propagate
  \/ Stop

SpecR == Init /\ [][NextR]_vars

\* The operations of Node on their own: any task may be handed to any node
\* for _add_task; _remove_task is called for any task on an idle node and
\* for the active task on a busy node.  `raised` is the exception of the call.
InitN ==
  /\ now = 0
  /\ queue = InitialQueue
  /\ mode = "driver"
  /\ until = 0
  /\ raised = NoErr
  /\ launched = 0
  /\ task = [t \in TaskObjs |-> [NewTask EXCEPT !.req = t]]
  /\ free_cpu_freq = max_cpu_freq
  /\ node_active = [n \in Nodes |-> <<>>]
  /\ buffer = [n \in Nodes |-> <<>>]
  /\ free_size = max_size
  /\ free_bandwidth = max_bandwidth
  /\ data_flows = [l \in Links |-> <<>>]
  /\ active_tasks = [i \in Ids |-> 0]
  /\ collector = <<>>
  /\ task_count = 0
  /\ task_info = [i \in Ids |-> [status |-> -1, info |-> <<>>, src |-> NoNode, dst |-> NoNode]]
  /\ monitor_alive = TRUE
  /\ energy_consumption = [n \in Nodes |-> 0]
  /\ total_cpu_freq = [n \in Nodes |-> 0]
  /\ clock = [n \in Nodes |-> 0]
  /\ flag_only_wireless = [n \in Nodes |-> FALSE]
  /\ default_dst_node = [n \in Nodes |-> NoNode]
  /\ done_task_info = <<>>
  /\ drained_in_run = <<>>

NodeAcquire(n, t) ==
  /\ Unpack([add_task(Pack, n, t) EXCEPT !.exc = NoErr])
  /\ raised' = add_task(Pack, n, t).exc
  /\ UNCHANGED <<mode, until, launched>>

NodeRelease(n, t) ==
  /\ free_cpu_freq[n] > 0 \/ InList(node_active[n], t)
  /\ Unpack([remove_task(Pack, n, t) EXCEPT !.exc = NoErr])
  /\ raised' = remove_task(Pack, n, t).exc
  /\ UNCHANGED <<mode, until, launched>>

\* the Task objects handed to the nodes
NodeTasks == {1, 2}

NextN ==
  \/ \E n \in Nodes, t \in NodeTasks : NodeAcquire(n, t)
  \/ \E n \in Nodes, t \in NodeTasks : NodeRelease(n, t)

SpecN == InitN /\ [][NextN]_vars

\* The same program under the second driver
NextQ ==
  \/ \E r \in QueueRequests : SubmitQ(r)
  \/ Run
  \/ Initialize
  \/ Reactivate
  \/ Arrive
  \/ Complete
  \/ Monitor
  \/ EnergyTick
  \/ Propagate
  \/ Stop

SpecQ == Init /\ [][NextQ]_vars

\* The same program on a scenario in which n3 is a WirelessNode
\* (flag_only_wireless = True).  Its default_dst_node is None when the
\* scenario is built, and n0 once update_access_dst_nodes has been called.
InitW ==
  /\ now = 0
  /\ queue = InitialQueue
  /\ mode = "driver"
  /\ until = 0
  /\ raised = NoErr
  /\ launched = 0
  /\ task = [t \in TaskObjs |-> NewTask]
  /\ free_cpu_freq = max_cpu_freq
  /\ node_active = [n \in Nodes |-> <<>>]
  /\ buffer = [n \in Nodes |-> <<>>]
  /\ free_size = max_size
  /\ free_bandwidth = max_bandwidth
  /\ data_flows = [l \in Links |-> <<>>]
  /\ active_tasks = [i \in Ids |-> 0]
  /\ collector = <<>>
  /\ task_count = 0
  /\ task_info = [i \in Ids |-> [status |-> -1, info |-> <<>>, src |-> NoNode, dst |-> NoNode]]
  /\ monitor_alive = TRUE
  /\ energy_consumption = [n \in Nodes |-> 0]
  /\ total_cpu_freq = [n \in Nodes |-> 0]
  /\ clock = [n \in Nodes |-> 0]
  /\ flag_only_wireless = [n \in Nodes |-> n = "n3"]
  /\ default_dst_node \in {[n \in Nodes |-> NoNode],
                          [n \in Nodes |-> IF n = "n3" THEN "n0" ELSE NoNode]}
  /\ done_task_info = <<>>
  /\ drained_in_run = <<>>

SpecW == InitW /\ [][Next]_vars

\* ------------------------------------------------------------- type check
TypeOK ==
  /\ now \in 0..(MaxTime * Second)
  /\ mode \in {"driver", "kernel"}
  /\ launched \in 0..Cardinality(TaskObjs)
  /\ \A n \in Nodes : free_cpu_freq[n] \in 0..max_cpu_freq[n]
  /\ task_count \in Nat

\* ---------------------------------------------------------------- helpers
TaskReq(t) == Catalog[task[t].req]
Created(t) == task[t].req # 0

\* the kernel is about to pop an event of the given kind for task t
AboutTo(kind, t) == Due /\ Head(queue).kind = kind /\ Head(queue).task = t

\* the step admits task t at node n: it arrives from the network, or it was
\* submitted with dst = src and passes the duplicate-id guard
AdmissionOf(t, n) ==
  /\ Created(t)
  /\ n = TaskReq(t).dst_name
  /\ \/ AboutTo("trans_done", t)
     \/ /\ AboutTo("init", t)
        /\ TaskReq(t).src_name = TaskReq(t).dst_name
        /\ active_tasks[TaskReq(t).id] = 0

FlowRates(l) == [i \in 1..Len(data_flows[l]) |-> TaskReq(data_flows[l][i]).trans_bit_rate]
QueuedSizes(n) == [i \in 1..Len(buffer[n]) |-> TaskReq(buffer[n][i]).task_size]

\* ------------------------------------------------------------------ claims

\* C1: for every link, in every reachable state, 0 <= free_bandwidth <=
\* max_bandwidth and free_bandwidth plus the bit rates of the flows in the
\* link's data_flows list equals max_bandwidth.
C1_LinkBandwidthConserved ==
  \A l \in Links :
    /\ 0 <= free_bandwidth[l]
    /\ free_bandwidth[l] <= max_bandwidth[l]
    /\ free_bandwidth[l] + SeqSum(FlowRates(l)) = max_bandwidth[l]

\* C1 witness: a link carries two flows at once while a flow placed earlier
\* has already been released (its task is executing)
C1_Witness ==
  /\ \E l \in Links : Len(data_flows[l]) >= 2
  /\ \E t \in TaskObjs : task[t].pc = "exec" /\ task[t].trans_time > 0

\* C2: for every node, in every reachable state, free_cpu_freq is 0 or
\* max_cpu_freq, the active-task list holds at most one task, and the list is
\* non-empty exactly when free_cpu_freq = 0.
C2_SingleTaskCpu ==
  \A n \in Nodes :
    /\ free_cpu_freq[n] \in {0, max_cpu_freq[n]}
    /\ Len(node_active[n]) <= 1
    /\ (node_active[n] # <<>>) <=> (free_cpu_freq[n] = 0)

\* C2 witness: a node is executing a task it took from its buffer after the
\* drain released the CPU from the previous task
C2_Witness ==
  \E n \in Nodes, t, u \in TaskObjs :
    /\ free_cpu_freq[n] = 0
    /\ node_active[n] = <<t>>
    /\ task[t].wait_time > task[t].trans_time
    /\ task[u].drained

\* C3: for every node buffer, in every reachable state, free_size plus the
\* sizes of the queued tasks equals max_size and 0 <= free_size <= max_size;
\* an append of a task larger than free_size fails with
\* InsufficientBufferError and leaves the queue and free_size unchanged, and
\* an append of a task of size <= free_size (equality included) succeeds.
C3_BufferInv ==
  \A n \in Nodes :
    /\ 0 <= free_size[n]
    /\ free_size[n] <= max_size[n]
    /\ free_size[n] + SeqSum(QueuedSizes(n)) = max_size[n]

C3_AppendStep ==
  \A t \in TaskObjs, n \in Nodes :
    (AdmissionOf(t, n) /\ free_cpu_freq[n] = 0) =>
       IF TaskReq(t).task_size > free_size[n]
       THEN /\ task'[t].pc = "failed"
            /\ task'[t].err = "InsufficientBufferError"
            /\ buffer'[n] = buffer[n]
            /\ free_size'[n] = free_size[n]
       ELSE /\ task'[t].pc = "queued"
            /\ buffer'[n] = Append(buffer[n], t)
            /\ free_size'[n] = free_size[n] - TaskReq(t).task_size

C3_BufferAccounting == []C3_BufferInv /\ [][C3_AppendStep]_vars

\* C3 witness: a buffer was filled to exactly its capacity (free_size = 0
\* with a task queued) and a later append was refused
C3_Witness ==
  \E n \in Nodes, t \in TaskObjs :
    /\ buffer[n] # <<>>
    /\ free_size[n] = 0
    /\ task[t].err = "InsufficientBufferError"
    /\ task[t].dst = n

\* the step routes task t: first step of a submitted task with dst # src that
\* passes the duplicate-id guard and has a path
Routes ==
  [fw \in {[n \in Nodes |-> FALSE], [n \in Nodes |-> n = "n3"]},
   dd \in {[n \in Nodes |-> NoNode], [n \in Nodes |-> IF n = "n3" THEN "n0" ELSE NoNode]} |->
     [src \in Nodes, dst \in Nodes |-> get_shortest_links(fw, dd, src, dst)]]
PathOf(t) ==
  Routes[flag_only_wireless, default_dst_node][TaskReq(t).src_name, TaskReq(t).dst_name]
OnPath(t, l) == \E i \in 1..Len(PathOf(t).links) : PathOf(t).links[i] = l

RoutingOf(t) ==
  /\ Created(t)
  /\ AboutTo("init", t)
  /\ TaskReq(t).src_name # TaskReq(t).dst_name
  /\ active_tasks[TaskReq(t).id] = 0
  /\ PathOf(t).ok

\* C5: bandwidth placement is all-or-nothing: when a task is routed and some
\* link of its path has free_bandwidth < trans_bit_rate, the task fails with
\* NetCongestionError at the submit instant and no link's free_bandwidth or
\* flow list changes; otherwise trans_bit_rate is reserved on every link of
\* the path (and on no other link) in that same step.
C5_PlacementStep ==
  \A t \in TaskObjs :
    RoutingOf(t) =>
      IF \E l \in Links : OnPath(t, l) /\ free_bandwidth[l] < TaskReq(t).trans_bit_rate
      THEN /\ task'[t].pc = "failed"
           /\ task'[t].err = "NetCongestionError"
           /\ now' = task[t].submitted_at
           /\ ~task'[t].placed
           /\ free_bandwidth' = free_bandwidth
           /\ data_flows' = data_flows
      ELSE /\ task'[t].pc = "trans"
           /\ \A l \in Links :
                IF OnPath(t, l)
                THEN /\ free_bandwidth'[l] = free_bandwidth[l] - TaskReq(t).trans_bit_rate
                     /\ data_flows'[l] = Append(data_flows[l], t)
                ELSE /\ free_bandwidth'[l] = free_bandwidth[l]
                     /\ data_flows'[l] = data_flows[l]

C5_AllOrNothing == [][C5_PlacementStep]_vars

\* C5 witness: a task routed over two links failed with NetCongestionError
\* although the first link of its path could have carried it
C5_Witness ==
  \E t \in TaskObjs :
    /\ task[t].err = "NetCongestionError"
    /\ Created(t)
    /\ Len(PathOf(t).links) = 2
    /\ free_bandwidth[PathOf(t).links[1]] >= TaskReq(t).trans_bit_rate
    /\ free_bandwidth[PathOf(t).links[2]] < TaskReq(t).trans_bit_rate
    /\ \A l \in Links : ~InList(data_flows[l], t)

\* every flow now on link l has bit rate r
AllFlowsAtRate(l, r) == \A i \in 1..Len(data_flows[l]) : FlowRates(l)[i] = r

\* C6: when tasks of one trans_bit_rate are submitted over the same link of
\* bandwidth bw and none has finished transmitting, exactly bw \div rate of
\* them transmit concurrently and every further one fails with
\* NetCongestionError at its submit instant.
C6_Inv ==
  \A l \in Links, t \in TaskObjs :
    (Created(t) /\ AllFlowsAtRate(l, TaskReq(t).trans_bit_rate))
       => Len(data_flows[l]) <= max_bandwidth[l] \div TaskReq(t).trans_bit_rate

C6_Step ==
  \A t \in TaskObjs :
    (RoutingOf(t) /\ \A l \in Links : OnPath(t, l) => AllFlowsAtRate(l, TaskReq(t).trans_bit_rate))
      => IF \A l \in Links : OnPath(t, l) =>
                 Len(data_flows[l]) < max_bandwidth[l] \div TaskReq(t).trans_bit_rate
         THEN task'[t].pc = "trans"
         ELSE /\ task'[t].pc = "failed"
              /\ task'[t].err = "NetCongestionError"
              /\ now' = task[t].submitted_at

C6_FloorOfBandwidth == []C6_Inv /\ [][C6_Step]_vars

\* C6 witness: three tasks of rate 1 were submitted over a link of bandwidth
\* 2; two are transmitting and the third failed with NetCongestionError
C6_Witness ==
  \E l \in Links, t \in TaskObjs :
    /\ Created(t)
    /\ task[t].err = "NetCongestionError"
    /\ PathOf(t).links = <<l>>
    /\ AllFlowsAtRate(l, TaskReq(t).trans_bit_rate)
    /\ Len(data_flows[l]) = 2
    /\ Len(data_flows[l]) = max_bandwidth[l] \div TaskReq(t).trans_bit_rate

\* C7: a task's flow is released exactly when its trans_time elapses: while
\* the task is transmitting the flow sits on the links of its path; the
\* arrival happens at submit instant + trans_time; from the arrival on the
\* flow is in no link's list, and when no task is transmitting every link has
\* free_bandwidth = max_bandwidth.
C7_Inv ==
  /\ \A t \in TaskObjs :
       IF task[t].pc = "trans"
       THEN /\ task[t].placed
            /\ \A l \in Links : InList(data_flows[l], t) <=> OnPath(t, l)
       ELSE /\ ~task[t].placed
            /\ \A l \in Links : ~InList(data_flows[l], t)
  /\ (\A t \in TaskObjs : task[t].pc # "trans") => free_bandwidth = max_bandwidth

C7_Step ==
  \A t \in TaskObjs :
    /\ (task[t].pc = "trans" /\ task'[t].pc # "trans")
         => /\ AboutTo("trans_done", t)
            /\ now' = task[t].submitted_at + task[t].trans_time
    /\ AboutTo("trans_done", t)
         => /\ task[t].pc = "trans"
            /\ task'[t].pc \in {"exec", "queued", "failed"}
            /\ \A l \in Links :
                 OnPath(t, l) =>
                   free_bandwidth'[l] = free_bandwidth[l] + TaskReq(t).trans_bit_rate

C7_FlowReleasedOnArrival == []C7_Inv /\ [][C7_Step]_vars

\* C7 witness: a task that was transmitted has arrived and is queued at its
\* destination while another task is still transmitting
C7_Witness ==
  \E t, u \in TaskObjs :
    /\ task[t].pc = "queued"
    /\ task[t].trans_time > 0
    /\ task[u].pc = "trans"

\* C8: at admission the outcome depends on the destination only: CPU free ->
\* the task executes (whatever the buffer capacity); CPU busy and task_size <=
\* free_size -> the task is queued; CPU busy and task_size > free_size -> the
\* task fails with InsufficientBufferError and the node's CPU, active list
\* and buffer are unchanged.
C8_AdmissionStep ==
  \A t \in TaskObjs, n \in Nodes :
    AdmissionOf(t, n) =>
      IF free_cpu_freq[n] > 0
      THEN /\ task'[t].pc = "exec"
           /\ node_active'[n] = <<t>>
           /\ free_cpu_freq'[n] = 0
           /\ buffer'[n] = buffer[n]
           /\ free_size'[n] = free_size[n]
      ELSE IF TaskReq(t).task_size <= free_size[n]
      THEN /\ task'[t].pc = "queued"
           /\ buffer'[n] = Append(buffer[n], t)
           /\ free_cpu_freq'[n] = free_cpu_freq[n]
           /\ node_active'[n] = node_active[n]
      ELSE /\ task'[t].pc = "failed"
           /\ task'[t].err = "InsufficientBufferError"
           /\ free_cpu_freq'[n] = free_cpu_freq[n]
           /\ node_active'[n] = node_active[n]
           /\ buffer'[n] = buffer[n]
           /\ free_size'[n] = free_size[n]

C8_AdmissionOutcome == [][C8_AdmissionStep]_vars

\* C8 witness: a node whose buffer capacity is 0 executes a task, and a task
\* that arrived there while the CPU was busy failed with
\* InsufficientBufferError
C8_Witness ==
  \E n \in Nodes, t, u \in TaskObjs :
    /\ max_size[n] = 0
    /\ node_active[n] = <<t>>
    /\ task[t].pc = "exec"
    /\ task[u].err = "InsufficientBufferError"
    /\ task[u].dst = n

\* C9: a Submit whose task id is in the active set when Env.process is called
\* fails with DuplicateTaskIdError at that instant, before any routing,
\* bandwidth reservation, CPU acquisition or buffering, and leaves every
\* node, link and buffer and the already-active task unchanged.
C9_DuplicateStep ==
  \A t \in TaskObjs :
    (AboutTo("init", t) /\ task[t].dup_at_submit) =>
       /\ task'[t].pc = "failed"
       /\ task'[t].err = "DuplicateTaskIdError"
       /\ now' = task[t].submitted_at
       /\ task'[t].dst = NoNode
       /\ task'[t].trans_time = -1
       /\ ~task'[t].placed
       /\ \A u \in TaskObjs \ {t} : task'[u] = task[u]
       /\ UNCHANGED <<free_cpu_freq, node_active, buffer, free_size, free_bandwidth,
                      data_flows, active_tasks, collector>>

C9_DuplicateGuard == [][C9_DuplicateStep]_vars

\* C9 witness: a task that would have been routed was refused as a duplicate
\* of a task that is still executing
C9_Witness ==
  \E t, u \in TaskObjs :
    /\ task[t].dup_at_submit
    /\ task[t].err = "DuplicateTaskIdError"
    /\ TaskReq(t).src_name # TaskReq(t).dst_name
    /\ active_tasks[TaskReq(t).id] = u
    /\ task[u].pc = "exec"

\* a task the kernel has accepted and that has neither been drained nor failed
InFlight(u) ==
  /\ task[u].pc \in {"trans", "queued", "react", "exec", "finished"}
  /\ ~task[u].drained

\* C10: a Submit with the id of a task that was submitted earlier and has not
\* yet been drained or failed is rejected with DuplicateTaskIdError, in
\* whatever stage the earlier task is (transmitting, arriving at that same
\* instant, queued, executing).
C10_DuplicateStep ==
  \A t \in TaskObjs :
    (/\ AboutTo("init", t)
     /\ \E u \in TaskObjs \ {t} :
          /\ Created(u)
          /\ TaskReq(u).id = TaskReq(t).id
          /\ InFlight(u))
      => /\ task'[t].pc = "failed"
         /\ task'[t].err = "DuplicateTaskIdError"

C10_RejectedInEveryStage == [][C10_DuplicateStep]_vars

\* C4: per node, queued tasks leave the buffer in the order they entered it
\* and start executing in that order: tasks enter at the tail and leave at the
\* head, the task that is popped starts executing on the node, and no task
\* that arrives later is admitted to the CPU while a task waits in the buffer.
C4_FifoStep ==
  \A n \in Nodes, t \in TaskObjs :
    /\ buffer'[n] # buffer[n] =>
         \/ \E u \in TaskObjs : buffer'[n] = Append(buffer[n], u)
         \/ /\ buffer[n] # <<>>
            /\ buffer'[n] = Tail(buffer[n])
            /\ task'[Head(buffer[n])].pc = "react"
    /\ (AboutTo("react", t) /\ task[t].dst = n) =>
         /\ task'[t].pc = "exec"
         /\ node_active'[n] = <<t>>
    /\ (task[t].pc \notin {"exec", "react"} /\ task'[t].pc = "exec" /\ task'[t].dst = n) =>
         buffer[n] = <<>>

C4_BufferFifo == [][C4_FifoStep]_vars

\* every task created before t with the id of t has left the system (drained
\* by the monitor, or failed), and one of them was drained
PriorDrained(t) ==
  /\ \A u \in TaskObjs \ {t} :
       (Created(u) /\ TaskReq(u).id = TaskReq(t).id) =>
          (task[u].drained \/ task[u].pc = "failed")
  /\ \E u \in TaskObjs \ {t} :
       Created(u) /\ TaskReq(u).id = TaskReq(t).id /\ task[u].drained

\* C11: once the earlier task with id X has been drained by the monitor, a
\* new Submit with id X is not rejected with DuplicateTaskIdError: its first
\* step routes it, admits it or buffers it like a task with a fresh id, and
\* the only failures it can meet are those of routing and admission.
C11_ReuseStep ==
  \A t \in TaskObjs :
    (AboutTo("init", t) /\ PriorDrained(t)) =>
       /\ task'[t].err # "DuplicateTaskIdError"
       /\ \/ task'[t].pc \in {"trans", "exec", "queued"}
          \/ /\ task'[t].pc = "failed"
             /\ task'[t].err \in {"NetworkXNoPathError", "NetCongestionError",
                                  "InsufficientBufferError"}
       /\ task'[t].pc = "exec" => active_tasks'[TaskReq(t).id] = t

C11_IdReuseAfterDrain == [][C11_ReuseStep]_vars

\* C11 witness: a task was accepted (it transmits or executes) although an
\* earlier task with its id had run and been drained before it was submitted
C11_Witness ==
  \E t, u \in TaskObjs :
    /\ t # u
    /\ Created(t) /\ Created(u)
    /\ TaskReq(u).id = TaskReq(t).id
    /\ task[u].drained
    /\ task[u].drained_at <= task[t].submitted_at
    /\ task[t].pc \in {"trans", "exec"}

\* C12: when a queued task is popped for reactivation at instant now, its
\* elapsed wait is now - enqueue stamp + trans_time; if that exceeds the ddl
\* of the task, the task fails with TimeoutError and never executes,
\* otherwise it starts executing.
C12_ReactivationStep ==
  \A t \in TaskObjs :
    AboutTo("react", t) =>
      LET elapsed == (Head(queue).time - task[t].wait_time) + task[t].trans_time
      IN IF elapsed > TaskReq(t).ddl
         THEN /\ task'[t].pc = "failed"
              /\ task'[t].err = "TimeoutError"
              /\ task'[t].exe_time = -1
         ELSE task'[t].pc = "exec"

C12_TimeoutAtReactivation == [][C12_ReactivationStep]_vars

\* C13: for every completed task (drained by the monitor, or failed with
\* TimeoutError), wait_time <= ddl holds if and only if the task did not fail
\* with TimeoutError; no task with a success record has a wait_time greater
\* than its ddl.
C13_WaitWithinDeadline ==
  \A x \in TaskObjs :
    (Created(x) /\ (task[x].drained \/ task[x].err = "TimeoutError")) =>
       ((task[x].wait_time <= TaskReq(x).ddl) <=> (task[x].err # "TimeoutError"))

\* C14: every success record (status 0) has trans_time >= 0,
\* wait_time >= trans_time and exe_time > 0.
C14_SuccessRecordTimes ==
  \A i \in Ids :
    task_info[i].status = 0 =>
       /\ task_info[i].info[1] >= 0
       /\ task_info[i].info[2] >= task_info[i].info[1]
       /\ task_info[i].info[3] > 0

\* C14 witness: the success record of a task that was transmitted, then
\* waited in the buffer
C14_Witness ==
  \E i \in Ids :
    /\ task_info[i].status = 0
    /\ task_info[i].info[1] > 0
    /\ task_info[i].info[2] > task_info[i].info[1]

\* C15: wait_time is re-stamped, not accumulated.  A task admitted to the CPU
\* on arrival gets wait_time = trans_time; a task that finds the CPU busy gets
\* wait_time = the enqueue instant and keeps it while it is queued; a
\* reactivated task that starts executing gets
\* wait_time = (reactivation instant - enqueue instant) + trans_time.
C15_WaitStep ==
  \A t \in TaskObjs :
    /\ (task[t].pc \in {"init", "trans"} /\ task'[t].pc = "exec") =>
          task'[t].wait_time = task'[t].trans_time
    /\ (task[t].pc \in {"init", "trans"} /\ task'[t].pc = "queued") =>
          task'[t].wait_time = now'
    /\ (task[t].pc = "queued" /\ task'[t].pc \in {"queued", "react"}) =>
          task'[t].wait_time = task[t].wait_time
    /\ (AboutTo("react", t) /\ task'[t].pc = "exec") =>
          /\ task'[t].wait_time = (now' - task[t].wait_time) + task[t].trans_time
          /\ task'[t].trans_time = task[t].trans_time

C15_WaitRestamped == [][C15_WaitStep]_vars

\* C15 witness: a task that was enqueued after the start of the run (its
\* stamp was not zero) and now executes with the rewritten wait_time
C15_Witness ==
  \E t \in TaskObjs :
    /\ task[t].pc = "exec"
    /\ task[t].trans_time > 0
    /\ task[t].wait_time > task[t].trans_time
    /\ task[t].wait_time < now + task[t].trans_time

\* the wired links (Link objects) of the path of task t, in path order
WiredLinksOf(t) == SelectSeq(PathOf(t).links, LAMBDA l : l \in Links)

\* the first step of task t is about to route it over a path that exists
\* and has enough free bandwidth on each of its wired links
AboutToRoute(t) ==
  /\ AboutTo("init", t)
  /\ TaskReq(t).src_name # TaskReq(t).dst_name
  /\ active_tasks[TaskReq(t).id] = 0
  /\ PathOf(t).ok
  /\ \A i \in 1..Len(WiredLinksOf(t)) :
       free_bandwidth[WiredLinksOf(t)[i]] >= TaskReq(t).trans_bit_rate

\* C16: the trans_time of a routed task is the sum of base_latency over the
\* links of its path plus (task_size / trans_bit_rate) times the number of
\* wired links of the path; a wireless hop (a tuple in the path) adds no
\* latency and no transfer time.
C16_TransTimeStep ==
  \A t \in TaskObjs :
    AboutToRoute(t) =>
       /\ task'[t].pc = "trans"
       /\ task'[t].trans_time =
            SeqSum([i \in 1..Len(WiredLinksOf(t)) |-> base_latency[WiredLinksOf(t)[i]]])
              + ((Second * TaskReq(t).task_size) \div TaskReq(t).trans_bit_rate)
                  * Len(WiredLinksOf(t))

C16_TransTimeWiredHops == [][C16_TransTimeStep]_vars

\* C17: while a task is transmitting, its flow is in the flow list of every
\* wired link of its path, with its bit rate reserved there, and in the flow
\* list of no other link; a wireless hop in the path takes part in no
\* bandwidth accounting and does not make the submission fail.
C17_FlowStep ==
  \A t \in TaskObjs :
    /\ task'[t].pc = "trans" =>
          \A l \in Links : InList(data_flows'[l], t) <=> OnPath(t, l)
    /\ AboutToRoute(t) =>
          /\ task'[t].pc = "trans"
          /\ \A l \in Links :
               free_bandwidth'[l] =
                 free_bandwidth[l] - (IF OnPath(t, l) THEN TaskReq(t).trans_bit_rate ELSE 0)

C17_FlowOnWiredLinks == [][C17_FlowStep]_vars

\* task t went from a source to a different destination and was admitted to
\* the CPU when it arrived
RoutedToIdle(t) ==
  /\ Created(t)
  /\ TaskReq(t).src_name # TaskReq(t).dst_name
  /\ ~task[t].was_queued

\* C18 as stated: a task submitted at instant t from src to a different, idle
\* destination over an uncongested path is recorded as done (success record
\* written, CPU released, removed from the active set) at exactly
\* t + trans_time + exe_time, with
\* exe_time = task_size * cycles_per_bit / max_cpu_freq(dst).
C18_DoneStep ==
  \A t \in TaskObjs :
    (RoutedToIdle(t) /\ ~task[t].drained /\ task'[t].drained) =>
       /\ now' = task[t].submitted_at + task[t].trans_time + task[t].exe_time
       /\ task[t].exe_time =
            (Second * TaskReq(t).task_size * TaskReq(t).cycles_per_bit)
               \div max_cpu_freq[TaskReq(t).dst_name]

C18_DoneAtFinish == [][C18_DoneStep]_vars

\* C18 amended: such a task finishes executing (puts its completion notice)
\* at exactly t + trans_time + exe_time, with
\* exe_time = task_size * cycles_per_bit / max_cpu_freq(dst) and
\* wait_time = trans_time; success records are written, CPUs released and
\* tasks removed from the active set only by the monitor, at its ticks (whole
\* seconds), so a task is recorded as done at a tick, not at the instant it
\* finishes.
C18_FinishStep ==
  /\ \A t \in TaskObjs :
       (RoutedToIdle(t) /\ AboutTo("exe_done", t)) =>
          /\ now' = task[t].submitted_at + task[t].trans_time + task[t].exe_time
          /\ task[t].exe_time =
               (Second * TaskReq(t).task_size * TaskReq(t).cycles_per_bit)
                  \div max_cpu_freq[TaskReq(t).dst_name]
          /\ task[t].wait_time = task[t].trans_time
          /\ collector' = Append(collector, [id |-> TaskReq(t).id,
                                             dst |-> TaskReq(t).dst_name, by |-> t])
          /\ UNCHANGED <<free_cpu_freq, node_active, active_tasks, task_info, task_count>>
  /\ (\/ \E t \in TaskObjs : ~task[t].drained /\ task'[t].drained
      \/ \E i \in Ids : task_info'[i] # task_info[i] /\ task_info'[i].status = 0
      \/ \E i \in Ids : active_tasks[i] # 0 /\ active_tasks'[i] = 0
      \/ \E n \in Nodes : free_cpu_freq[n] = 0 /\ free_cpu_freq'[n] > 0)
       => /\ Due /\ Head(queue).kind = "monitor"
          /\ now' % Second = 0

C18_FinishThenDrainAtTick == [][C18_FinishStep]_vars

\* C18 witness: a task routed to an idle destination that finished at
\* t + trans_time + exe_time, between two ticks of the monitor, and was
\* recorded as done at the next tick
C18_Witness ==
  \E t \in TaskObjs :
    /\ RoutedToIdle(t)
    /\ task[t].drained
    /\ task[t].done_at = task[t].submitted_at + task[t].trans_time + task[t].exe_time
    /\ task[t].drained_at > task[t].done_at
    /\ task_info[TaskReq(t).id].status = 0

\* C19: draining the completion notice that task T put for node N releases
\* N's CPU, removes T from the active set, writes T's success record and
\* counts T as processed; if N's buffer is not empty its head is popped and
\* reactivated at the same instant on N, with no routing and no bandwidth
\* reservation; if the buffer is empty N's CPU is left free.
C19_DrainStep ==
  /\ (Due /\ Head(queue).kind = "monitor" /\ Len(collector) = 1) =>
       LET T == collector[1].by
           N == collector[1].dst
           id == collector[1].id
       IN /\ collector' = <<>>
          /\ task'[T].drained
          /\ task'[T].dst = NoNode
          /\ ~InList(node_active'[N], T)
          /\ free_cpu_freq'[N] = max_cpu_freq[N]
          /\ active_tasks'[id] = 0
          /\ task_info'[id] = [status |-> 0,
                               info |-> <<task[T].trans_time, task[T].wait_time,
                                          task[T].exe_time>>,
                               src |-> TaskReq(T).src_name, dst |-> N]
          /\ task_count' = task_count + 1
          /\ UNCHANGED <<free_bandwidth, data_flows>>
          /\ IF buffer[N] # <<>>
             THEN /\ buffer'[N] = Tail(buffer[N])
                  /\ task'[Head(buffer[N])].pc = "react"
                  /\ Head(queue') = Event(now', URGENT, "react", Head(buffer[N]), NoErr)
             ELSE /\ buffer'[N] = <<>>
                  /\ \A t \in TaskObjs : task'[t].pc # "react"
  /\ \A t \in TaskObjs :
       AboutTo("react", t) =>
          /\ now' = now
          /\ task'[t].pc = "exec"
          /\ task'[t].dst = task[t].dst
          /\ node_active'[task[t].dst] = <<t>>
          /\ task'[t].trans_time = task[t].trans_time
          /\ UNCHANGED <<free_bandwidth, data_flows>>

C19_DrainEffects == [][C19_DrainStep]_vars

\* C20: a task popped by the drain is admitted only after the drain has
\* released the CPU of its node: whatever else happens at that instant, the
\* reactivated task finds free_cpu_freq > 0 and starts executing; it is not
\* buffered again and its CPU acquisition does not fail.
C20_ReactivationStep ==
  \A t \in TaskObjs :
    /\ task[t].pc = "react" =>
         /\ free_cpu_freq[task[t].dst] > 0
         /\ \E i \in 1..Len(queue) :
              queue[i] = Event(now, URGENT, "react", t, NoErr)
         /\ task'[t].pc \in {"react", "exec"}
    /\ AboutTo("react", t) =>
         /\ task'[t].pc = "exec"
         /\ free_cpu_freq'[task[t].dst] = 0
         /\ buffer' = buffer

C20_PostReleaseThenAdmit == [][C20_ReactivationStep]_vars

\* the events that stay in the queue over the next step, and the events of
\* the next queue that the step has scheduled
Remaining == IF Due THEN Tail(queue) ELSE queue
IsNewEvent(e) == \A i \in 1..Len(Remaining) : Remaining[i] # e
WakeUps == {"trans_done", "exe_done", "monitor", "energy"}
FirstSteps == {"init", "react"}
Before(e, f) == e.time < f.time \/ (e.time = f.time /\ e.prio < f.prio)

\* C21 as stated: events of one instant run in the order in which they were
\* scheduled: a wake-up (arrival, completion, drain tick, energy tick) that
\* is already scheduled for instant t runs before the first step of a task
\* coroutine that Submit or the drain creates later for that instant.
C21_FifoStep ==
  \A j, k \in 1..Len(queue') :
    (/\ IsNewEvent(queue'[j])
     /\ queue'[j].kind \in FirstSteps
     /\ ~IsNewEvent(queue'[k])
     /\ queue'[k].kind \in WakeUps
     /\ queue'[k].time = queue'[j].time) => k < j

C21_PriorityStep ==
  /\ \A j, k \in 1..Len(queue') : j < k => ~Before(queue'[k], queue'[j])
  /\ SelectSeq(queue', LAMBDA e : ~IsNewEvent(e)) = Remaining
  /\ \A j, k \in 1..Len(queue') :
       (/\ IsNewEvent(queue'[j])
        /\ ~IsNewEvent(queue'[k])
        /\ queue'[k].time = queue'[j].time
        /\ queue'[k].prio = queue'[j].prio) => k < j
  /\ \A j \in 1..Len(queue') :
       IsNewEvent(queue'[j]) =>
         /\ queue'[j].kind \in FirstSteps =>
              queue'[j].prio = URGENT /\ queue'[j].time = now'
         /\ queue'[j].kind \in WakeUps => queue'[j].prio = NORMAL

C22_FinalStep ==
  \A t \in TaskObjs :
    /\ task[t].pc = "failed" =>
         /\ task'[t].pc = "failed"
         /\ task'[t].err = task[t].err
    /\ task'[t].pc = "failed" =>
         /\ \A i \in 1..Len(queue') :
              queue'[i].task = t =>
                queue'[i].kind \notin {"init", "react", "trans_done", "exe_done"}
         /\ \A l \in Links : ~InList(data_flows'[l], t)
         /\ \A n \in Nodes : ~InList(node_active'[n], t) /\ ~InList(buffer'[n], t)
         /\ \A i \in Ids : active_tasks'[i] # t

C22_FailureIsFinal == [][C22_FinalStep]_vars

\* C22 witness: a task failed on arrival, after it had held bandwidth; its
\* error has reached the driver and the destination is still busy
C22_Witness ==
  \E t \in TaskObjs :
    /\ task[t].pc = "failed"
    /\ task[t].err = "InsufficientBufferError"
    /\ task[t].trans_time > 0
    /\ mode = "driver"
    /\ raised = "InsufficientBufferError"
    /\ free_cpu_freq[TaskReq(t).dst_name] = 0

\* the failure kinds of the kernel
FailureKinds ==
  {"DuplicateTaskIdError", "NetworkXNoPathError", "IsolatedWirelessNode",
   "NetCongestionError", "InsufficientBufferError", "TimeoutError"}

\* C23: whenever a task fails with one of the failure kinds, the same step
\* adds exactly one to task_count and writes for the id of the task a record
\* of status 1 that names the kind, before the error propagates to the
\* driver (the failed process event is still in the queue).
C23_FailureStep ==
  \A t \in TaskObjs :
    (task[t].pc # "failed" /\ task'[t].pc = "failed" /\ task'[t].err \in FailureKinds) =>
       /\ task_count' = task_count + 1
       /\ task_info'[TaskReq(t).id].status = 1
       /\ task_info'[TaskReq(t).id].info = <<task'[t].err>>
       /\ \E i \in 1..Len(queue') :
            queue'[i] = Event(now', NORMAL, "fail", t, task'[t].err)

C23_FailureCountedAndLogged == [][C23_FailureStep]_vars

\* C24: when a task that was queued fails at its reactivation, and other
\* tasks wait in the buffer of its node, the same step pops the next of them
\* and schedules its admission for that instant, ahead of the propagation of
\* the error.
C24_SuccessorStep ==
  \A t \in TaskObjs :
    (/\ AboutTo("react", t)
     /\ task'[t].pc = "failed"
     /\ buffer[task[t].dst] # <<>>) =>
       LET n == task[t].dst
           h == Head(buffer[n])
       IN /\ buffer'[n] = Tail(buffer[n])
          /\ task'[h].pc = "react"
          /\ \E i, j \in 1..Len(queue') :
               /\ i < j
               /\ queue'[i] = Event(now', URGENT, "react", h, NoErr)
               /\ queue'[j] = Event(now', NORMAL, "fail", t, task'[t].err)

C24_SuccessorWokenOnFailure == [][C24_SuccessorStep]_vars

\* the tasks submitted so far that are still in flight: waiting for their
\* first step, transmitting, queued, being admitted or executing, or
\* finished with their completion notice still in the collector
StillInFlight ==
  {t \in TaskObjs :
     \/ task[t].pc \in {"init", "trans", "queued", "react", "exec"}
     \/ /\ task[t].pc = "finished"
        /\ \E i \in 1..Len(collector) : collector[i].by = t}

\* C25: in every reachable state the processed counter equals the number of
\* Submit calls made so far minus the number of tasks still in flight.
C25_Conservation == task_count = launched - Cardinality(StillInFlight)

\* the kernel has nothing left that could count a task: no task coroutine has
\* a pending step, arrival or completion, and either the collector is empty
\* or the monitor coroutine has ended
NothingLeftToCount ==
  /\ \A i \in 1..Len(queue) :
       queue[i].kind \notin {"init", "react", "trans_done", "exe_done"}
  /\ collector = <<>> \/ ~monitor_alive

\* C26: every submitted task eventually reaches DONE or a recorded failure:
\* whenever the kernel has nothing left that could count a task (so that
\* advancing time changes the processed counter no more), the counter equals
\* the number of launched tasks and the drivers' wait loop ends.
C26_WaitLoopTerminates == NothingLeftToCount => task_count = launched

\* Status, processed counter, logger and collector are as after construction
InitialStatus ==
  /\ free_cpu_freq = max_cpu_freq
  /\ node_active = [n \in Nodes |-> <<>>]
  /\ buffer = [n \in Nodes |-> <<>>]
  /\ free_size = max_size
  /\ free_bandwidth = max_bandwidth
  /\ data_flows = [l \in Links |-> <<>>]
  /\ task_count = 0
  /\ task_info = [i \in Ids |-> [status |-> -1, info |-> <<>>, src |-> NoNode, dst |-> NoNode]]
  /\ collector = <<>>

\* C27: in any reachable state, with tasks transmitting, queued or executing
\* included, Reset completes, and afterwards Status equals the initial
\* Status, the processed counter is 0 and the logger and the collector are
\* empty.
C27_ResetStep == Reset => (raised' = NoErr /\ InitialStatus')

C27_ResetRoundTrip == [][C27_ResetStep]_vars

\* C28: a task that was in flight when Reset was called changes nothing when
\* its coroutine is resumed: it releases no bandwidth, acquires no CPU, enters
\* no buffer, puts no notice, writes no record, counts nothing and raises no
\* error.
C28_CancelledStep ==
  \A t \in TaskObjs :
    (/\ task[t].pc_at_reset \in {"trans", "exec"}
     /\ \E k \in {"init", "react", "trans_done", "exe_done"} : AboutTo(k, t)) =>
       /\ UNCHANGED <<free_cpu_freq, node_active, buffer, free_size, free_bandwidth,
                      data_flows, active_tasks, collector, task_count, task_info>>
       /\ task'[t].pc # "failed"
       /\ \A i \in 1..Len(queue') : queue'[i].task = t => queue'[i].kind = "energy"

C28_CancelledByReset == [][C28_CancelledStep]_vars

\* the kernel is about to resume the energy recorder of node NodeSeq[i]
AboutToTick(i) == Due /\ Head(queue).kind = "energy" /\ Head(queue).task = i

\* the frequency in use on node n
UsedFreq(n) == max_cpu_freq[n] - free_cpu_freq[n]

\* C29 as stated: at each energy tick of a node, energy_consumption rises by
\* idle coefficient * refresh rate (1) * max_cpu_freq, total_cpu_freq by
\* (max_cpu_freq - free_cpu_freq) and clock by 1.
C29_IdleTimesMaxStep ==
  \A i \in 1..Len(NodeSeq) :
    AboutToTick(i) =>
      LET n == NodeSeq[i]
      IN /\ energy_consumption'[n] =
              energy_consumption[n] + energy_coefficients[n].idle * 1 * max_cpu_freq[n]
         /\ total_cpu_freq'[n] = total_cpu_freq[n] + UsedFreq(n)
         /\ clock'[n] = clock[n] + 1

C29_TickAddsIdleTimesMax == [][C29_IdleTimesMaxStep]_vars

\* C29, amended: at each energy tick of a node (one per second, the first at
\* t = 0), energy_consumption rises by the idle coefficient plus the execution
\* coefficient times the cube of the frequency in use, total_cpu_freq by the
\* frequency in use and clock by 1, and no other node's counters change; a
\* node that has never run a task has accumulated idle coefficient * clock.
C29_TickStep ==
  /\ \A i \in 1..Len(NodeSeq) :
       AboutToTick(i) =>
         LET n == NodeSeq[i]
         IN /\ energy_consumption'[n] =
                 energy_consumption[n] + energy_coefficients[n].idle
                   + energy_coefficients[n].exe * UsedFreq(n) * UsedFreq(n) * UsedFreq(n)
            /\ total_cpu_freq'[n] = total_cpu_freq[n] + UsedFreq(n)
            /\ clock'[n] = clock[n] + 1
            /\ \A m \in Nodes \ {n} :
                 /\ energy_consumption'[m] = energy_consumption[m]
                 /\ total_cpu_freq'[m] = total_cpu_freq[m]
                 /\ clock'[m] = clock[m]
            /\ \E j \in 1..Len(queue') :
                 queue'[j] = Event(now' + Second, NORMAL, "energy", i, NoErr)
  /\ \A n \in Nodes :
       total_cpu_freq'[n] = 0 =>
         energy_consumption'[n] = energy_coefficients[n].idle * clock'[n]

C29_TickAddsIdlePlusCubic == [][C29_TickStep]_vars

\* C29 witness: a node has been ticked both idle and with its CPU in use
C29_Witness ==
  \E n \in Nodes :
    /\ clock[n] >= 2
    /\ total_cpu_freq[n] = max_cpu_freq[n]
    /\ energy_consumption[n] =
         2 * energy_coefficients[n].idle
           + energy_coefficients[n].exe * max_cpu_freq[n] * max_cpu_freq[n] * max_cpu_freq[n]

\* C30: between Resets, energy_consumption, clock and total_cpu_freq of every
\* node never decrease.
C30_MonotoneStep ==
  Reset \/ \A n \in Nodes :
             /\ energy_consumption'[n] >= energy_consumption[n]
             /\ clock'[n] >= clock[n]
             /\ total_cpu_freq'[n] >= total_cpu_freq[n]

C30_EnergyMonotone == [][C30_MonotoneStep]_vars

\* C30 witness: after a Reset that put the counters back to zero, a node has
\* been ticked again, idle and with its CPU in use
C30_Witness ==
  \E n \in Nodes :
    /\ clock[n] >= 2
    /\ clock[n] * Second <= now
    /\ total_cpu_freq[n] > 0
    /\ energy_consumption[n] > energy_coefficients[n].idle * clock[n]

\* C31: a task that is executing is never aborted because its ddl passes: its
\* completion is pending while it executes and, when exe_time has elapsed, it
\* puts its completion notice whether or not wait_time + exe_time exceeds the
\* ddl; a task that was never queued never fails with TimeoutError.
C31_ExecutingStep ==
  \A t \in TaskObjs :
    /\ task'[t].pc = "exec" =>
         \E i \in 1..Len(queue') :
           /\ queue'[i].kind = "exe_done"
           /\ queue'[i].task = t
    /\ AboutTo("exe_done", t) =>
         /\ task[t].pc = "exec"
         /\ task'[t].pc = "finished"
         /\ task'[t].err = NoErr
         /\ task'[t].done_at = now'
         /\ collector' = Append(collector, [id |-> TaskReq(t).id,
                                            dst |-> TaskReq(t).dst_name, by |-> t])
    /\ task'[t].err = "TimeoutError" => task'[t].was_queued

C32_AppendOnlyStep ==
  \A i \in Ids : task_info[i].status # -1 => task_info'[i] = task_info[i]

C32_LoggerAppendOnly == [][C32_AppendOnlyStep]_vars

\* the nodes that can be reached from the nodes of S over at most k links
RECURSIVE ReachableFrom(_, _)
ReachableFrom(S, k) ==
  IF k = 0 THEN S
  ELSE ReachableFrom(S \cup {l[2] : l \in {m \in Links : m[1] \in S}}, k - 1)

Unreachable(src, dst) == dst \notin ReachableFrom({src}, Cardinality(Nodes))

\* C33: a Submit (of a task whose id is not active) from src to a destination
\* that is unreachable in the link graph fails with NetworkXNoPathError at the
\* submit instant, counted and logged, and leaves every link's free_bandwidth
\* and flow list, every node's CPU, active list and buffer, and the active
\* set unchanged.
C33_NoPathStep ==
  \A t \in TaskObjs :
    (/\ Created(t)
     /\ AboutTo("init", t)
     /\ active_tasks[TaskReq(t).id] = 0
     /\ Unreachable(TaskReq(t).src_name, TaskReq(t).dst_name)) =>
       /\ now' = task[t].submitted_at
       /\ task'[t].pc = "failed"
       /\ task'[t].err = "NetworkXNoPathError"
       /\ \E i \in 1..Len(queue') :
            queue'[i] = Event(now', NORMAL, "fail", t, "NetworkXNoPathError")
       /\ task_info'[TaskReq(t).id] =
            [status |-> 1, info |-> <<"NetworkXNoPathError">>,
             src |-> TaskReq(t).src_name, dst |-> TaskReq(t).dst_name]
       /\ task_count' = task_count + 1
       /\ UNCHANGED <<free_bandwidth, data_flows, free_cpu_freq, node_active, buffer,
                      free_size, active_tasks, collector>>

C33_NoPathLeavesStateAlone == [][C33_NoPathStep]_vars

\* C33 witness: the error of a task with no path has reached the driver while
\* a flow is placed and a node is busy
C33_Witness ==
  /\ raised = "NetworkXNoPathError"
  /\ \E t \in TaskObjs :
       /\ Created(t)
       /\ task[t].err = "NetworkXNoPathError"
       /\ Unreachable(TaskReq(t).src_name, TaskReq(t).dst_name)
       /\ now = task[t].submitted_at
  /\ \E l \in Links : data_flows[l] # <<>>
  /\ \E n \in Nodes : free_cpu_freq[n] = 0

\* the kinds of event the kernel has a step for: Initialize, Reactivate,
\* Arrive, Complete, Monitor, EnergyTick and Propagate, in this order
EventKinds == <<"init", "react", "trans_done", "exe_done", "monitor", "energy", "fail">>

\* how many of the kernel's steps are possible in the current state: one per
\* kind of event that matches the head of the queue when it is due, and the
\* return of Env.run (Stop)
EnabledKernelSteps ==
  Cardinality({k \in 1..Len(EventKinds) : Due /\ Head(queue).kind = EventKinds[k]})
  + (IF mode = "kernel" /\ (IF queue = <<>> THEN TRUE ELSE Head(queue).time >= until)
     THEN 1 ELSE 0)

C35_LocalStep ==
  \A t \in TaskObjs :
    (/\ Created(t)
     /\ AboutTo("init", t)
     /\ active_tasks[TaskReq(t).id] = 0
     /\ TaskReq(t).src_name = TaskReq(t).dst_name) =>
       LET n == TaskReq(t).dst_name
       IN /\ now' = task[t].submitted_at
          /\ task'[t].trans_time = 0
          /\ ~task'[t].placed
          /\ task'[t].links = <<>>
          /\ UNCHANGED <<free_bandwidth, data_flows>>
          /\ \A i \in 1..Len(queue') : queue'[i].task = t => queue'[i].kind # "trans_done"
          /\ IF free_cpu_freq[n] > 0
             THEN task'[t].pc = "exec" /\ node_active'[n] = <<t>>
             ELSE IF TaskReq(t).task_size <= free_size[n]
             THEN task'[t].pc = "queued" /\ buffer'[n] = Append(buffer[n], t)
             ELSE task'[t].pc = "failed" /\ task'[t].err = "InsufficientBufferError"

C35_LocalTaskNotRouted == [][C35_LocalStep]_vars

\* C35 witness: a local task executes on a node while a flow towards that
\* node is placed on a link
C35_Witness ==
  \E t \in TaskObjs :
    /\ Created(t)
    /\ TaskReq(t).src_name = TaskReq(t).dst_name
    /\ task[t].pc = "exec"
    /\ task[t].trans_time = 0
    /\ \E l \in Links : l[2] = TaskReq(t).dst_name /\ data_flows[l] # <<>>

\* C36: _add_task on an idle node gives the task the node's max_cpu_freq,
\* sets free_cpu_freq to 0 and appends the task to the active list; _add_task
\* on a busy node and _remove_task on an idle node raise ValueError and leave
\* free_cpu_freq and the active list as they were; _remove_task of the active
\* task sets free_cpu_freq back to max_cpu_freq and takes the task off the
\* list.
C36_NodeStep ==
  \A n \in Nodes, t \in NodeTasks :
    /\ NodeAcquire(n, t) =>
         IF free_cpu_freq[n] = max_cpu_freq[n]
         THEN /\ raised' = NoErr
              /\ task'[t].cpu_freq = max_cpu_freq[n]
              /\ free_cpu_freq'[n] = 0
              /\ node_active'[n] = Append(node_active[n], t)
         ELSE /\ raised' = "ValueError"
              /\ free_cpu_freq'[n] = free_cpu_freq[n]
              /\ node_active'[n] = node_active[n]
              /\ task'[t].cpu_freq = task[t].cpu_freq
    /\ NodeRelease(n, t) =>
         IF free_cpu_freq[n] = max_cpu_freq[n]
         THEN /\ raised' = "ValueError"
              /\ free_cpu_freq'[n] = free_cpu_freq[n]
              /\ node_active'[n] = node_active[n]
         ELSE /\ raised' = NoErr
              /\ free_cpu_freq'[n] = max_cpu_freq[n]
              /\ node_active'[n] = <<>>
    /\ free_cpu_freq'[n] \in {0, max_cpu_freq[n]}
    /\ (free_cpu_freq'[n] = 0) <=> (node_active'[n] # <<>>)

C36_AcquireRelease == [][C36_NodeStep]_vars

\* C36 witness: a call has just failed on a node that is busy with a task
\* running at the node's full frequency, while another node is idle again
\* after a release
C36_Witness ==
  /\ raised = "ValueError"
  /\ \E n \in Nodes, t \in NodeTasks :
       /\ free_cpu_freq[n] = 0
       /\ node_active[n] = <<t>>
       /\ task[t].cpu_freq = max_cpu_freq[n]
  /\ \E m \in Nodes, u \in NodeTasks :
       /\ free_cpu_freq[m] = max_cpu_freq[m]
       /\ task[u].cpu_freq = max_cpu_freq[m]
       /\ \A k \in Nodes : ~InList(node_active[k], u)

\* the tasks registered in Env.active_tasks, and the tasks in the nodes'
\* active lists
EnvActive == {active_tasks[i] : i \in Ids} \ {0}
NodeActive == {t \in TaskObjs : \E n \in Nodes : InList(node_active[n], t)}

\* C37: the tasks in Env.active_tasks are exactly the tasks in the nodes'
\* active lists, one per busy node, and the task a drain deallocates is the
\* one that put the completion notice being drained.
C37_AgreeStep ==
  /\ EnvActive' = NodeActive'
  /\ \A n \in Nodes : free_cpu_freq'[n] = 0 <=> Len(node_active'[n]) = 1
  /\ \A t \in TaskObjs :
       (~task[t].drained /\ task'[t].drained) =>
          /\ task[t].pc = "finished"
          /\ \E i \in 1..Len(collector) : collector[i].by = t

C37_ActiveSetAgrees == [][C37_AgreeStep]_vars

\* every event of the current instant has been processed
EndOfInstant == IF queue = <<>> THEN TRUE ELSE Head(queue).time > now

\* C38: work conservation: at the end of every virtual instant, a node whose
\* CPU is free has an empty buffer.
C38_WorkConserving ==
  EndOfInstant => \A n \in Nodes : free_cpu_freq[n] > 0 => buffer[n] = <<>>

\* the first tick of the monitor at or after instant d
FirstTickFrom(d) == ((d + Second - 1) \div Second) * Second

\* C39: a task whose exe_time elapses at instant t is drained at the first
\* tick of the monitor at or after t: at t itself when t is a tick instant,
\* not one period later.
C39_TickStep ==
  (Due /\ Head(queue).kind = "monitor") =>
    /\ Head(queue).time % Second = 0
    /\ \A i \in 1..Len(collector) :
         Head(queue).time = FirstTickFrom(task[collector[i].by].done_at)

C39_DrainAtFirstTick == [][C39_TickStep]_vars

\* ------------------------------------------------------------------- C40
\* the number of tuples of done_task_info that the task object t put
TuplesOf(info, t) == Cardinality({i \in 1..Len(info) : info[i].by = t})

\* C40: when an Env.run call returns (by its stop event or by an exception),
\* every task drained as DONE during that call has its tuple (drain time,
\* task id, flag 0, info) in done_task_info, exactly once.
C40_ReturnStep ==
  (mode = "kernel" /\ mode' = "driver") =>
    \A i \in 1..Len(drained_in_run') :
      LET t == drained_in_run'[i].by
      IN /\ TuplesOf(done_task_info', t) = 1
         /\ \E j \in 1..Len(done_task_info') :
              /\ done_task_info'[j].by = t
              /\ done_task_info'[j].time = drained_in_run'[i].at
              /\ done_task_info'[j].id = TaskReq(t).id
              /\ done_task_info'[j].flag = 0

====
